---- MODULE Spec2Model ----
(***************************************************************************)
(* FunctionAnalyzer: a Streamlit application.  app.py keeps a CSV user     *)
(* store, a login / signup / admin-approval workflow and, for a logged-in  *)
(* session, executes function_analyzer.py, a script that parses one        *)
(* expression string with sympy and reports continuity, differentiability, *)
(* the derivative, a plot sample, limits at infinity and extrema.          *)
(*                                                                         *)
(* sympy, numpy and pandas are libraries: what they return for an input is *)
(* part of the input.  An expression string is therefore represented by    *)
(* the answers the libraries give for it (its profile); the script's own   *)
(* control flow, its try/except structure and its bookkeeping are modelled *)
(* statement by statement.                                                 *)
(***************************************************************************)
EXTENDS Integers, Sequences, FiniteSets, TLC

VARIABLES
    users,       \* users.csv: the rows of text cells on disk
    logged_in,   \* st.session_state.logged_in
    username,    \* st.session_state.username
    notice,      \* the message the login / signup / admin page showed last
    attempt,     \* history: the credentials of the last successful login
    equation,    \* the expression string of the running request (its profile)
    pc,          \* position of function_analyzer.py in the current script run
    out,         \* what the current script run has reported, in order
    derivative,  \* the script global `derivative` (bound or not)
    ref          \* history: one earlier finished request, kept for comparison

vars == <<users, logged_in, username, notice, attempt,
          equation, pc, out, derivative, ref>>

authVars == <<users, logged_in, username, notice, attempt>>

(***************************************************************************)
(* Bounds of the model.                                                    *)
(***************************************************************************)
\* number of sample points (400 in 1D, 100 x 100 in 2D, flattened)
SampleCount == 2
\* most roots sp.solve returns for f'(x) = 0
MaxRoots == 2
\* most critical points sp.solve returns for the gradient
MaxPoints == 2
\* most rows of users.csv
MaxUsers == 3

(***************************************************************************)
(* Expression profiles.                                                    *)
(***************************************************************************)
None == [none |-> TRUE]
Unbound == [unbound |-> TRUE]

\* outcomes of one numeric evaluation f_np(v): a finite zero, a finite
\* non-zero value, the IEEE specials, or a raised exception
SampleValues == {"f0", "f1", "inf", "-inf", "nan", "err"}

\* np.isfinite
isfinite(v) == v \in {"f0", "f1"}

\* a root of f'(x) = 0 as sp.solve returns it, with what f'' and f evaluate to
\* there; secondOk / valOk are FALSE when the substitution raises or the
\* result cannot be compared with 0
Roots ==
    { r \in [real : BOOLEAN, secondOk : BOOLEAN, second : -1..1,
             valOk : BOOLEAN, val : -1..1] :
        /\ (~r.secondOk => r.second = 0)
        /\ (~r.valOk => r.val = 0) }

\* a solution of the gradient system with the Hessian entries there; hessOk is
\* FALSE when a substitution, the determinant or a comparison raises, valOk is
\* FALSE when expr.subs(pt).evalf() or its "{val:.4f}" formatting raises
Points ==
    { p \in [hessOk : BOOLEAN, fxx : -1..1, fxy : -1..1, fyy : -1..1,
             valOk : BOOLEAN] :
        ~p.hessOk => (p.fxx = 0 /\ p.fxy = 0 /\ p.fyy = 0) }

RECURSIVE SeqsUpTo(_, _)
SeqsUpTo(S, n) ==
    IF n = 0 THEN {<<>>}
    ELSE LET shorter == SeqsUpTo(S, n - 1)
         IN  shorter \cup { Append(s, e) : s \in {t \in shorter : Len(t) = n - 1}, e \in S }

SeqsOfLen(S, n) == { s \in SeqsUpTo(S, n) : Len(s) = n }

FreeSets == SUBSET {"x", "y", "z"}

GoodSample == [i \in 1..SampleCount |-> "f1"]
ErrSample == [i \in 1..SampleCount |-> IF i = 1 THEN "err" ELSE "f1"]
DefaultRoots == <<[real |-> TRUE, secondOk |-> TRUE, second |-> 1, valOk |-> TRUE, val |-> 0]>>
DefaultPoints == <<[hessOk |-> TRUE, fxx |-> 1, fxy |-> 0, fyy |-> 1, valOk |-> TRUE]>>

\* an expression every library call succeeds on
Plain(free) ==
    [parses |-> "expr", free |-> free, cont |-> "all", diff |-> "all",
     lim |-> "finite", solve |-> "ok", sample |-> GoodSample,
     roots |-> DefaultRoots, points |-> DefaultPoints]

\* a string sp.sympify raises on, such as "x +* 2"
Unparsable == [Plain({}) EXCEPT !.parses = "raise"]

\* a string sp.sympify evaluates to a Python container instead of an
\* expression, such as "[x, y]": the result has no free_symbols
NotAnExpression == [Plain({}) EXCEPT !.parses = "object"]

ContOutcomes == {"raise", "all", "some"}
DiffOutcomes == {"raise", "domraise", "all", "some"}
LimOutcomes == {"raise", "finite", "oo", "-oo"}
SolveOutcomes == {"raise", "ok"}

\* every combination of which library call raises
FlagInputs ==
    {Unparsable, NotAnExpression} \cup
    { [Plain(f) EXCEPT !.cont = c, !.diff = d, !.lim = l, !.solve = s, !.sample = sm] :
        f \in FreeSets, c \in ContOutcomes, d \in DiffOutcomes, l \in LimOutcomes,
        s \in SolveOutcomes, sm \in {GoodSample, ErrSample} }

\* every sample, in one and in two variables
SampleInputs ==
    { [Plain(f) EXCEPT !.sample = sm] :
        f \in {{"x"}, {"x", "y"}}, sm \in SeqsOfLen(SampleValues, SampleCount) }

\* every list of roots of f'
ExtremaInputs ==
    { [Plain({"x"}) EXCEPT !.roots = rs] : rs \in SeqsUpTo(Roots, MaxRoots) }

\* every list of critical points
CriticalInputs ==
    { [Plain({"x", "y"}) EXCEPT !.points = ps] : ps \in SeqsUpTo(Points, MaxPoints) }

\* the requests followed across reruns: each step either raises or succeeds
RepeatInputs ==
    {Unparsable, NotAnExpression} \cup
    { [Plain(f) EXCEPT !.cont = c, !.diff = d, !.lim = l, !.solve = s, !.sample = sm] :
        f \in SUBSET {"x", "y"}, c \in {"raise", "all"}, d \in {"raise", "all"},
        l \in {"raise", "finite"}, s \in SolveOutcomes, sm \in {GoodSample, ErrSample} }

\* the requests made while the account workflow is explored
AuthInputs == {Unparsable, Plain({"x"}), Plain({"x", "y"})}

(***************************************************************************)
(* Reports: one record per st.* call of the script.                        *)
(***************************************************************************)
Msg(step, level, text, of, data, item) ==
    [step |-> step, level |-> level, text |-> text, of |-> of,
     data |-> data, item |-> item]

Say(step, level, text) == Msg(step, level, text, equation, <<>>, <<>>)

StepMsgs(step) == SelectSeq(out, LAMBDA m : m.step = step)

Terminal == {"done", "stopped", "fault"}

\* app.py routing: which page a script run renders
Route ==
    IF username = "admin" THEN "admin"
    ELSE IF ~logged_in THEN "login"
    ELSE "analyzer"

(***************************************************************************)
(* function_analyzer.py, one action per section of the script.             *)
(***************************************************************************)

\* an uncaught exception leaves the script; load_function_analyzer catches it
Fault ==
    /\ out' = Append(out, Say("loader", "error", "Error loading function analyzer"))
    /\ pc' = "fault"

\* the module namespace a script run starts with: Streamlit executes app.py in
\* a new __main__ module on every rerun, so exec(code, globals()) finds no
\* global left by an earlier run
StaleNamespace == derivative

FreshNamespace == Unbound

\* the text input holds a string and the script runs from the top: the first
\* request of a session, or (rerun) a new string after a finished run, when
\* the finished request may be kept in ref
Submit(F, rerun) ==
    /\ Route = "analyzer"
    /\ pc = "idle" \/ (rerun /\ pc \in Terminal)
    /\ \E e \in F :
          equation' = e
    /\ pc' = "sympify"
    /\ out' = <<>>
    /\ derivative' = FreshNamespace
    /\ \E keep \in (IF pc \in Terminal THEN BOOLEAN ELSE {FALSE}) :
          ref' = IF keep THEN [equation |-> equation, out |-> out] ELSE ref
    /\ UNCHANGED authVars

\* try: expr = sp.sympify(equation) / except: st.error, but execution goes on
SympifyNoStop ==
    /\ pc = "sympify"
    /\ out' = IF equation.parses # "raise" THEN out
              ELSE <<Say("parse", "error", "Invalid expression")>>
    /\ pc' = "branch"
    /\ UNCHANGED <<equation, derivative, ref>>
    /\ UNCHANGED authVars

\* try: expr = sp.sympify(equation) / except: st.error; st.stop()
Sympify ==
    /\ pc = "sympify"
    /\ IF equation.parses # "raise"
       THEN /\ pc' = "branch"
            /\ out' = out
       ELSE /\ out' = <<Say("parse", "error", "Invalid expression")>>
            /\ pc' = "stopped"
    /\ UNCHANGED <<equation, derivative, ref>>
    /\ UNCHANGED authVars

\* vars_used: x and y, in this order, when they are free symbols of expr
vars_used(e) ==
    (IF "x" \in e.free THEN <<"x">> ELSE <<>>) \o
    (IF "y" \in e.free THEN <<"y">> ELSE <<>>)

InSeq(v, s) == \E i \in 1..Len(s) : s[i] = v

Is1DAnyVariable(vu) == Len(vu) = 1

\* if len(vars_used) == 1 and x in vars_used
Is1D(vu) == Len(vu) = 1 /\ InSeq("x", vu)

\* elif len(vars_used) == 2
Is2D(vu) == Len(vu) = 2

\* free_vars = expr.free_symbols (an AttributeError, outside any try, when
\* sympify returned a container), vars_used, and the if / elif / else over it
\* with the header of the branch taken
SelectBranch ==
    /\ pc = "branch"
    /\ LET vu == vars_used(equation)
       IN  IF equation.parses = "object"
           THEN Fault
           ELSE IF Is1D(vu)
           THEN /\ out' = Append(out, Say("branch", "header", "1D Function Analysis"))
                /\ pc' = "continuity1d"
           ELSE IF Is2D(vu)
           THEN /\ out' = Append(out, Say("branch", "header", "2D Function Analysis"))
                /\ pc' = "continuity2d"
           ELSE /\ out' = Append(out, Say("branch", "warning",
                              "Please enter a valid function in one or two variables."))
                /\ pc' = "done"
    /\ UNCHANGED <<equation, derivative, ref>>
    /\ UNCHANGED authVars

(***************************************************************************)
(* 1D branch.                                                              *)
(***************************************************************************)

\* continuous_domain(expr, x, Reals) and the verdict; not inside a try
Continuity1D ==
    /\ pc = "continuity1d"
    /\ IF equation.cont = "raise"
       THEN Fault
       ELSE /\ out' = Append(out,
                        IF equation.cont = "all"
                        THEN Say("continuity", "success", "Function is continuous over R.")
                        ELSE Say("continuity", "warning", "Discontinuous at"))
            /\ pc' = "differentiability1d"
    /\ UNCHANGED <<equation, derivative, ref>>
    /\ UNCHANGED authVars

\* try: derivative = sp.diff(expr, x); diff_domain = ...; verdict / except: warning
Differentiability1D ==
    /\ pc = "differentiability1d"
    /\ derivative' = IF equation.diff = "raise" THEN derivative
                     ELSE [of |-> equation]
    /\ out' = Append(out,
                CASE equation.diff = "all" ->
                       Say("differentiability", "success", "Function is differentiable over R.")
                  [] equation.diff = "some" ->
                       Say("differentiability", "warning", "Not differentiable at")
                  [] OTHER ->
                       Say("differentiability", "warning", "Could not determine differentiability."))
    /\ pc' = "derivative1d"
    /\ UNCHANGED <<equation, ref>>
    /\ UNCHANGED authVars

\* try: st.code(f"f'(x) = {derivative}") / except: warning (NameError when unbound)
DerivativeDisplay1D ==
    /\ pc = "derivative1d"
    /\ out' = Append(out,
                IF derivative # Unbound
                THEN Msg("derivative", "code", "f'(x) =", derivative.of, <<>>, <<>>)
                ELSE Say("derivative", "warning", "Could not compute derivative."))
    /\ pc' = "plot1d"
    /\ UNCHANGED <<equation, derivative, ref>>
    /\ UNCHANGED authVars

\* [f_np(v) if np.isfinite(f_np(v)) else np.nan for v in x_vals]
y_vals(sample) == [i \in 1..Len(sample) |-> IF isfinite(sample[i]) THEN sample[i] ELSE "nan"]

\* lambdify, the sample and the figure; not inside a try
Plot1D ==
    /\ pc = "plot1d"
    /\ IF \E i \in 1..Len(equation.sample) : equation.sample[i] = "err"
       THEN Fault
       ELSE /\ out' = Append(out, Msg("plot", "pyplot", "plot", equation,
                                      y_vals(equation.sample), <<>>))
            /\ pc' = "limits1d"
    /\ UNCHANGED <<equation, derivative, ref>>
    /\ UNCHANGED authVars

\* try: lim_pos, lim_neg; two st.write / except: warning
Limits1D ==
    /\ pc = "limits1d"
    /\ out' = IF equation.lim = "raise"
              THEN Append(out, Say("limits", "warning", "Could not compute limits at infinity."))
              ELSE out \o
                   << Msg("limits", "write", "Limit as x -> oo", equation, <<equation.lim>>, <<>>),
                      Msg("limits", "write", "Limit as x -> -oo", equation, <<equation.lim>>, <<>>) >>
    /\ pc' = "extrema1d"
    /\ UNCHANGED <<equation, derivative, ref>>
    /\ UNCHANGED authVars

\* the for loop over critical_points: second > 0 appends to min_pts
min_pts(roots) == SelectSeq(roots, LAMBDA r : r.secondOk /\ r.valOk /\ r.second > 0)

\* the for loop over critical_points: second < 0 appends to max_pts
max_pts(roots) == SelectSeq(roots, LAMBDA r : r.secondOk /\ r.valOk /\ r.second < 0)

\* min(min_pts, key=lambda t: t[1]): the first element with the smallest value
RECURSIVE PyMin(_, _, _)
PyMin(pts, best, i) ==
    IF i > Len(pts) THEN best
    ELSE PyMin(pts, IF pts[i].val < best.val THEN pts[i] ELSE best, i + 1)

\* max(max_pts, key=lambda t: t[1]): the first element with the largest value
RECURSIVE PyMax(_, _, _)
PyMax(pts, best, i) ==
    IF i > Len(pts) THEN best
    ELSE PyMax(pts, IF pts[i].val > best.val THEN pts[i] ELSE best, i + 1)

best_min(roots) == PyMin(min_pts(roots), min_pts(roots)[1], 2)

best_max(roots) == PyMax(max_pts(roots), max_pts(roots)[1], 2)

\* f_prime, f_double, sp.solve (not inside a try; the domain flag is not one
\* sp.solve knows, so complex roots are returned too), the loop, the reports
Extrema1D ==
    /\ pc = "extrema1d"
    /\ IF equation.diff = "raise" \/ equation.solve = "raise"
       THEN Fault
       ELSE /\ out' = out \o
                 << IF min_pts(equation.roots) # <<>>
                    THEN Msg("extrema", "success", "Global minimum", equation, <<>>,
                             <<best_min(equation.roots)>>)
                    ELSE Say("extrema", "info", "No global minimum (or function is unbounded below)."),
                    IF max_pts(equation.roots) # <<>>
                    THEN Msg("extrema", "success", "Global maximum", equation, <<>>,
                             <<best_max(equation.roots)>>)
                    ELSE Say("extrema", "info", "No global maximum (or function is unbounded above).") >>
            /\ pc' = "done"
    /\ UNCHANGED <<equation, derivative, ref>>
    /\ UNCHANGED authVars

(***************************************************************************)
(* 2D branch.                                                              *)
(***************************************************************************)

\* try: domain_x, domain_y, discont; verdict / except: warning
Continuity2D ==
    /\ pc = "continuity2d"
    /\ out' = Append(out,
                CASE equation.cont = "all" ->
                       Say("continuity", "success", "Continuous over R^2.")
                  [] equation.cont = "some" ->
                       Say("continuity", "warning", "Discontinuities along")
                  [] OTHER ->
                       Say("continuity", "warning", "Could not determine continuity."))
    /\ pc' = "differentiability2d"
    /\ UNCHANGED <<equation, derivative, ref>>
    /\ UNCHANGED authVars

\* try: fx, fy, fx_dom, fy_dom; verdict; the two st.code / except: warning
Differentiability2D ==
    /\ pc = "differentiability2d"
    /\ out' = IF equation.diff \in {"raise", "domraise"}
              THEN Append(out, Say("differentiability", "warning",
                                   "Could not compute partial derivatives."))
              ELSE out \o
                   << IF equation.diff = "all"
                      THEN Say("differentiability", "success",
                               "Function is differentiable (partials are continuous).")
                      ELSE Say("differentiability", "warning",
                               "Function may not be differentiable everywhere."),
                      Say("differentiability", "code", "df/dx ="),
                      Say("differentiability", "code", "df/dy =") >>
    /\ pc' = "plot2d"
    /\ UNCHANGED <<equation, derivative, ref>>
    /\ UNCHANGED authVars

\* Z = f_np(X, Y): the grid is evaluated in one vectorised call and handed to
\* plot_surface as it is
Z(sample) == sample

\* try: the grid, Z, plot_surface, st.pyplot / except Exception: st.error
Plot2D ==
    /\ pc = "plot2d"
    /\ out' = Append(out,
                IF \E i \in 1..Len(equation.sample) : equation.sample[i] = "err"
                THEN Say("plot", "error", "Plotting failed")
                ELSE Msg("plot", "pyplot", "plot_surface", equation, Z(equation.sample), <<>>))
    /\ pc' = "radial2d"
    /\ UNCHANGED <<equation, derivative, ref>>
    /\ UNCHANGED authVars

\* try: radial substitution, the limit, st.write and the growth warnings / except
Radial2D ==
    /\ pc = "radial2d"
    /\ out' = IF equation.lim = "raise"
              THEN Append(out, Say("limits", "warning", "Could not determine radial behavior."))
              ELSE out \o
                   << Msg("limits", "write", "Radial limit as r -> oo", equation,
                          <<equation.lim>>, <<>>) >> \o
                   (CASE equation.lim = "oo" ->
                           <<Say("limits", "warning", "Function grows to oo.")>>
                      [] equation.lim = "-oo" ->
                           <<Say("limits", "warning", "Function decreases to -oo.")>>
                      [] OTHER -> <<>>)
    /\ pc' = "critical2d"
    /\ UNCHANGED <<equation, derivative, ref>>
    /\ UNCHANGED authVars

\* det = H.det() for H = [[f_xx, f_xy], [f_xy, f_yy]]
det(pt) == pt.fxx * pt.fyy - pt.fxy * pt.fxy

KindMinMaxSwapped(d, f_xx) ==
    IF d > 0 THEN (IF f_xx > 0 THEN "Local Max" ELSE "Local Min")
    ELSE IF d < 0 THEN "Saddle Point"
    ELSE "Inconclusive"

\* the if / elif / else over det and f_xx
kind(d, f_xx) ==
    IF d > 0 THEN (IF f_xx > 0 THEN "Local Min" ELSE "Local Max")
    ELSE IF d < 0 THEN "Saddle Point"
    ELSE "Inconclusive"

\* the body of the for loop: the inner try / except around one point
ClassifyPoint(pt) ==
    IF pt.hessOk /\ pt.valOk
    THEN Msg("critical", "write", kind(det(pt), pt.fxx), equation, <<>>, <<pt>>)
    ELSE Msg("critical", "warning", "Could not classify point", equation, <<>>, <<pt>>)

\* a loop inside one try: the first failing point ends it
RECURSIVE CritLoopOneTry(_, _)
CritLoopOneTry(pts, i) ==
    IF i > Len(pts) THEN <<>>
    ELSE IF pts[i].hessOk /\ pts[i].valOk
    THEN <<ClassifyPoint(pts[i])>> \o CritLoopOneTry(pts, i + 1)
    ELSE <<Msg("critical", "warning", "Could not find critical points.", equation, <<>>, <<>>)>>

\* for pt in crit_pts, from the i-th point on
RECURSIVE CritLoop(_, _)
CritLoop(pts, i) ==
    IF i > Len(pts) THEN <<>>
    ELSE <<ClassifyPoint(pts[i])>> \o CritLoop(pts, i + 1)

\* try: grad, sp.solve; none found, or the loop / except: warning
CriticalPoints2D ==
    /\ pc = "critical2d"
    /\ out' = IF equation.diff = "raise" \/ equation.solve = "raise"
              THEN Append(out, Say("critical", "warning", "Could not find critical points."))
              ELSE IF equation.points = <<>>
              THEN Append(out, Say("critical", "info", "No critical points found."))
              ELSE out \o CritLoop(equation.points, 1)
    /\ pc' = "done"
    /\ UNCHANGED <<equation, derivative, ref>>
    /\ UNCHANGED authVars

(***************************************************************************)
(* app.py: users.csv and its pandas round trip.                            *)
(***************************************************************************)
Usernames == {"alice", "admin", "", "7"}
Passwords == {"pw1", "pw2"}

\* values of the username column of a DataFrame
Str(s) == [t |-> "str", v |-> s]
NaN == [t |-> "nan", v |-> ""]

\* pd.read_csv reads an empty field as NaN
IsNA(cell) == cell = ""

\* a field pd.read_csv can parse as a number
IsNumeric(cell) == cell \in {"7", "7.0"}

HasDecimal(cell) == cell = "7.0"

IntPart(cell) == IF cell = "7.0" THEN "7" ELSE cell

\* bcrypt.hashpw: the digest checkpw compares against (the salt, which checkpw
\* reads back from the hash, is left out)
hash_password(password) == [digest |-> password]

\* bcrypt.checkpw
check_password(password, hashed) == hashed = hash_password(password)

\* get_users: pd.read_csv(USER_DB); a column whose fields are all numeric or
\* empty becomes int64 (float64 with an empty field or a decimal point),
\* any other column holds strings, and empty fields are NaN in both
get_users ==
    LET n == Len(users)
        numeric == n > 0 /\ \A i \in 1..n : IsNA(users[i].username) \/ IsNumeric(users[i].username)
        float == \E i \in 1..n : IsNA(users[i].username) \/ HasDecimal(users[i].username)
        value(cell) ==
            IF IsNA(cell) THEN NaN
            ELSE IF numeric THEN [t |-> IF float THEN "float" ELSE "int", v |-> IntPart(cell)]
            ELSE Str(cell)
    IN  [i \in 1..n |-> [username |-> value(users[i].username),
                         password |-> users[i].password,
                         approved |-> (users[i].approved = "True")]]

\* the text to_csv writes for one value of the username column
Field(val) ==
    CASE val.t = "nan" -> ""
      [] val.t = "float" -> val.v \o ".0"
      [] OTHER -> val.v

\* df.to_csv(USER_DB, index=False)
to_csv(df) ==
    [i \in 1..Len(df) |-> [username |-> Field(df[i].username),
                           password |-> df[i].password,
                           approved |-> IF df[i].approved THEN "True" ELSE "False"]]

\* elementwise == of pandas / numpy: NaN equals nothing, a string equals no number
Eq(a, b) ==
    /\ a.t # "nan"
    /\ b.t # "nan"
    /\ (a.t = "str") = (b.t = "str")
    /\ a.v = b.v

\* the rows df[df["username"] == name] selects
Matching(df, name) == SelectSeq(df, LAMBDA row : Eq(row.username, name))

\* save_user: [ok, the rows written]
save_user(name, password) ==
    LET df == get_users
    IN  IF Matching(df, Str(name)) # <<>>
        THEN [ok |-> FALSE, file |-> users]
        ELSE [ok |-> TRUE,
              file |-> to_csv(Append(df, [username |-> Str(name),
                                          password |-> hash_password(password),
                                          approved |-> FALSE]))]

\* approve_user: the rows written
approve_user(name) ==
    LET df == get_users
    IN  to_csv([i \in 1..Len(df) |->
                  IF Eq(df[i].username, name) THEN [df[i] EXCEPT !.approved = TRUE]
                  ELSE df[i]])

authenticate_user_unapproved(name, password) ==
    LET user == Matching(get_users, Str(name))
    IN  IF user # <<>> /\ check_password(password, user[1].password)
        THEN [ok |-> TRUE, msg |-> "Login successful."]
        ELSE [ok |-> FALSE, msg |-> "Invalid credentials."]

\* authenticate_user
authenticate_user(name, password) ==
    LET user == Matching(get_users, Str(name))
    IN  IF user # <<>> /\ check_password(password, user[1].password)
        THEN IF user[1].approved
             THEN [ok |-> TRUE, msg |-> "Login successful."]
             ELSE [ok |-> FALSE, msg |-> "Your account is pending admin approval."]
        ELSE [ok |-> FALSE, msg |-> "Invalid credentials."]

\* a script run that does not reach load_function_analyzer shows no analysis
NoAnalysis ==
    /\ equation' = None
    /\ pc' = "idle"
    /\ out' = <<>>
    /\ derivative' = Unbound
    /\ ref' = ref

\* login_page, choice "Login", the Login button
Login ==
    /\ Route = "login"
    /\ \E name \in Usernames, password \in Passwords :
          LET r == authenticate_user(name, password)
          IN  /\ logged_in' = IF r.ok THEN TRUE ELSE logged_in
              /\ username' = IF r.ok THEN name ELSE username
              /\ attempt' = IF r.ok THEN [username |-> name, password |-> password] ELSE attempt
              /\ notice' = r.msg
    /\ UNCHANGED users
    /\ NoAnalysis

\* login_page, choice "Signup", the Signup button
Signup ==
    /\ Route = "login"
    /\ \E name \in Usernames, password \in Passwords :
          LET r == save_user(name, password)
          IN  /\ Len(r.file) <= MaxUsers
              /\ users' = r.file
              /\ notice' = IF r.ok THEN "Signup successful! Awaiting admin approval."
                           ELSE "Username already exists. Try another."
    /\ UNCHANGED <<logged_in, username, attempt>>
    /\ NoAnalysis

\* admin_panel: the Approve button of one pending row
Approve ==
    /\ Route = "admin"
    /\ LET df == get_users
       IN  \E i \in 1..Len(df) :
              /\ ~df[i].approved
              /\ users' = approve_user(df[i].username)
    /\ notice' = "approved!"
    /\ UNCHANGED <<logged_in, username, attempt>>
    /\ NoAnalysis

\* logout, from the Logout button of the admin panel or of the analyzer page
Logout ==
    /\ Route \in {"admin", "analyzer"}
    /\ logged_in' = FALSE
    /\ username' = ""
    /\ notice' = "Logged out successfully."
    /\ UNCHANGED <<users, attempt>>
    /\ NoAnalysis

(***************************************************************************)
(* Specifications.                                                         *)
(***************************************************************************)
AdminRow == [username |-> "admin", password |-> hash_password("pw1"), approved |-> "True"]
AliceRow == [username |-> "alice", password |-> hash_password("pw1"), approved |-> "True"]

\* a fresh session over a user store that is new (the header only) or holds
\* the operator's approved admin account
Init ==
    /\ users \in {<<>>, <<AdminRow>>}
    /\ logged_in = FALSE
    /\ username = ""
    /\ notice = ""
    /\ attempt = None
    /\ equation = None
    /\ pc = "idle"
    /\ out = <<>>
    /\ derivative = Unbound
    /\ ref = None

\* a session in which an approved user has logged in
LoggedIn ==
    /\ users = <<AdminRow, AliceRow>>
    /\ logged_in = TRUE
    /\ username = "alice"
    /\ notice = "Login successful."
    /\ attempt = [username |-> "alice", password |-> "pw1"]
    /\ equation = None
    /\ pc = "idle"
    /\ out = <<>>
    /\ derivative = Unbound
    /\ ref = None

\* the steps of function_analyzer.py for requests drawn from F
Script(F, track) ==
    \/ Submit(F, track)
    \/ Sympify
    \/ SelectBranch
    \/ Continuity1D
    \/ Differentiability1D
    \/ DerivativeDisplay1D
    \/ Plot1D
    \/ Limits1D
    \/ Extrema1D
    \/ Continuity2D
    \/ Differentiability2D
    \/ Plot2D
    \/ Radial2D
    \/ CriticalPoints2D

\* the pages of app.py
Account ==
    \/ Login
    \/ Signup
    \/ Approve
    \/ Logout

Next == Account \/ Script(AuthInputs, TRUE)

\* the application: accounts, sessions and the analyzer behind the login
Spec == Init /\ [][Next]_vars

\* the analyzer over every combination of failing library calls and samples
SpecAnalyzer == LoggedIn /\ [][Script(FlagInputs \cup SampleInputs, FALSE)]_vars

\* the analyzer over every list of roots of f'
SpecExtrema == LoggedIn /\ [][Script(AuthInputs \cup ExtremaInputs, FALSE)]_vars

\* the analyzer over every list of critical points
SpecCritical == LoggedIn /\ [][Script(AuthInputs \cup CriticalInputs, FALSE)]_vars

\* successive requests of one session, one finished request remembered
SpecRepeat == LoggedIn /\ [][Script(RepeatInputs, TRUE)]_vars

(***************************************************************************)
(* Properties.                                                             *)
(***************************************************************************)
Requested == equation # None

\* the VariableSet of the specification: the free symbols among x and y
VariableSet == equation.free \cap {"x", "y"}

Parsed == Requested /\ equation.parses = "expr"

Ran1D == Parsed /\ VariableSet = {"x"} /\ pc \notin {"sympify", "branch"}

Ran2D == Parsed /\ VariableSet = {"x", "y"} /\ pc \notin {"sympify", "branch"}

Range(s) == { s[i] : i \in 1..Len(s) }

Steps1D == {"continuity", "differentiability", "derivative", "plot", "limits", "extrema"}

Steps2D == {"continuity", "differentiability", "plot", "limits", "critical"}

AnalysisSteps == Steps1D \cup Steps2D

C2_BranchByVariableSet ==
    (Parsed /\ pc \notin {"sympify", "branch"}) =>
        LET b == StepMsgs("branch")
        IN  /\ Len(b) = 1
            /\ VariableSet = {"x"} =>
                  /\ b[1].text = "1D Function Analysis"
                  /\ StepMsgs("critical") = <<>>
                  /\ pc \in {"continuity1d", "differentiability1d", "derivative1d", "plot1d",
                             "limits1d", "extrema1d", "done", "fault"}
            /\ VariableSet = {"x", "y"} =>
                  /\ b[1].text = "2D Function Analysis"
                  /\ StepMsgs("derivative") = <<>>
                  /\ StepMsgs("extrema") = <<>>
                  /\ pc \in {"continuity2d", "differentiability2d", "plot2d", "radial2d",
                             "critical2d", "done", "fault"}
            /\ VariableSet \notin {{"x"}, {"x", "y"}} =>
                  /\ b[1].level = "warning"
                  /\ Len(out) = 1
                  /\ pc = "done"

C2_Witness ==
    /\ Parsed
    /\ VariableSet = {"y"}
    /\ pc = "done"
    /\ Len(out) = 1
    /\ out[1].level = "warning"

\* the tag the second-derivative test of the specification gives a point
TagHolds(t, pt) ==
    LET D == pt.fxx * pt.fyy - pt.fxy * pt.fxy
    IN  CASE t = "Local Min" -> D > 0 /\ pt.fxx > 0
          [] t = "Local Max" -> D > 0 /\ pt.fxx <= 0
          [] t = "Saddle Point" -> D < 0
          [] t = "Inconclusive" -> D = 0

Tags == {"Local Min", "Local Max", "Saddle Point", "Inconclusive"}

\* the report of the i-th critical point is a classification that carries
\* the one tag the test gives it
TaggedByTest(i) ==
    LET ms == StepMsgs("critical")
        pt == equation.points[i]
    IN  /\ i <= Len(ms)
        /\ ms[i].level = "write"
        /\ ms[i].text \in Tags
        /\ \A t \in Tags : TagHolds(t, pt) <=> (t = ms[i].text)

CriticalLoopRan == Ran2D /\ pc = "done" /\ equation.diff # "raise" /\ equation.solve = "ok"

\* C3 as stated: every critical point whose Hessian entries evaluate is
\* reported with exactly the tag that D and f_xx determine.
C3_HessianAloneDecidesTag ==
    CriticalLoopRan =>
        \A i \in 1..Len(equation.points) : equation.points[i].hessOk => TaggedByTest(i)

\* C3, amended: every critical point whose Hessian entries evaluate and whose
\* function value evaluates and formats is reported with exactly the tag that
\* D and f_xx determine (D > 0, f_xx > 0: Local Min; D > 0, f_xx <= 0: Local
\* Max; D < 0: Saddle Point; D = 0: Inconclusive).
C3_TagByDeterminant ==
    CriticalLoopRan =>
        \A i \in 1..Len(equation.points) :
            (equation.points[i].hessOk /\ equation.points[i].valOk) => TaggedByTest(i)

C3_Witness ==
    /\ CriticalLoopRan
    /\ Len(equation.points) = 2
    /\ equation.points[1].hessOk /\ equation.points[1].valOk
    /\ equation.points[2].hessOk /\ equation.points[2].valOk
    /\ StepMsgs("critical")[1].text = "Local Max"
    /\ StepMsgs("critical")[2].text = "Inconclusive"

\* C4: the reported global minimum is a real root of f' with f'' > 0 whose
\* value is smallest among the roots with f'' > 0, the reported global maximum
\* symmetrically; roots with f'' = 0 or a failed evaluation are never reported;
\* without a candidate of a kind the "no global ..." message is reported.
C4_GlobalExtremaAmongRealRoots ==
    (Ran1D /\ Parsed /\ pc \in {"done", "fault"} /\ StepMsgs("limits") # <<>>) =>
        LET ms == StepMsgs("extrema")
            rs == Range(equation.roots)
            lows == { r \in rs : r.real /\ r.secondOk /\ r.valOk /\ r.second > 0 }
            highs == { r \in rs : r.real /\ r.secondOk /\ r.valOk /\ r.second < 0 }
        IN  /\ pc = "done"
            /\ Len(ms) = 2
            /\ IF lows = {}
               THEN ms[1].level = "info"
               ELSE /\ ms[1].text = "Global minimum"
                    /\ ms[1].item[1] \in lows
                    /\ \A q \in lows : ms[1].item[1].val <= q.val
            /\ IF highs = {}
               THEN ms[2].level = "info"
               ELSE /\ ms[2].text = "Global maximum"
                    /\ ms[2].item[1] \in highs
                    /\ \A q \in highs : ms[2].item[1].val >= q.val

\* C5: within one analysis request no failing step aborts the others: when
\* the request has ended, every step of its branch has reported (a result or
\* its own "could not determine"), and the request did not end in a fault.
C5_StepsIsolated ==
    /\ (Ran1D /\ pc \in {"done", "fault"}) =>
          /\ pc = "done"
          /\ \A s \in Steps1D : StepMsgs(s) # <<>>
    /\ (Ran2D /\ pc \in {"done", "fault"}) =>
          /\ pc = "done"
          /\ \A s \in Steps2D : StepMsgs(s) # <<>>

\* C6: in the 2D critical-point loop a point that fails to classify is
\* reported as unclassifiable and the loop goes on: the solver's points are
\* reported one by one, in order, and the request ends normally.
C6_LoopSurvivesBadPoint ==
    /\ Ran2D => pc # "fault"
    /\ (CriticalLoopRan /\ equation.points # <<>>) =>
          LET ms == StepMsgs("critical")
          IN  /\ Len(ms) = Len(equation.points)
              /\ \A i \in 1..Len(ms) :
                    /\ ms[i].item = <<equation.points[i]>>
                    /\ IF equation.points[i].hessOk /\ equation.points[i].valOk
                       THEN ms[i].level = "write"
                       ELSE ms[i].level = "warning" /\ ms[i].text = "Could not classify point"

C6_Witness ==
    /\ CriticalLoopRan
    /\ Len(equation.points) = 2
    /\ ~equation.points[1].hessOk
    /\ equation.points[2].hessOk /\ equation.points[2].valOk
    /\ Len(StepMsgs("critical")) = 2
    /\ StepMsgs("critical")[1].level = "warning"
    /\ StepMsgs("critical")[2].level = "write"

\* the plotting step is over: it reported, or it is where the script faulted
Plotted ==
    \/ StepMsgs("plot") # <<>>
    \/ pc = "fault" /\ StepMsgs("derivative") # <<>>

\* C7: in the sample handed to plotting, in 1D and in 2D, every sample whose
\* evaluation is not finite is the gap marker, and no such sample aborts the
\* request.
C7_NonFiniteSamplesAreGaps ==
    ((Ran1D \/ Ran2D) /\ Plotted) =>
        /\ ~(pc = "fault" /\ StepMsgs("plot") = <<>>)
        /\ \A k \in 1..Len(StepMsgs("plot")) :
              LET m == StepMsgs("plot")[k]
              IN  m.level = "pyplot" =>
                    \A i \in 1..Len(equation.sample) :
                        ~isfinite(equation.sample[i]) => m.data[i] = "nan"

\* C8: requests are independent and deterministic: everything a request
\* reports, and the derivative it holds, was computed from its own
\* expression, and a finished request reports exactly what an earlier
\* finished request with the same expression reported.
C8_RequestsIndependent ==
    /\ \A i \in 1..Len(out) : out[i].of = equation
    /\ derivative # Unbound => derivative.of = equation
    /\ (pc \in Terminal /\ ref # None /\ ref.equation = equation) => out = ref.out

C8_Witness ==
    /\ pc \in Terminal
    /\ Len(out) > 4
    /\ ref # None
    /\ ref.equation = equation
    /\ equation.diff = "raise"
    /\ StepMsgs("derivative") # <<>>
    /\ StepMsgs("derivative")[1].level = "warning"

\* C9: the analyzer runs only in a session whose logged_in flag is true; the
\* flag is set only by a login that authenticate_user accepts, which takes a
\* user record with the matching password and approved = true; after a logout
\* nothing of the analyzer is shown until the next successful login.
C9_AnalyzerBehindApprovedLogin ==
    /\ [](pc # "idle" => (logged_in /\ username # "admin"))
    /\ [](logged_in =>
            /\ attempt # None
            /\ attempt.username = username
            /\ \E i \in 1..Len(users) :
                  /\ users[i].username = username
                  /\ users[i].approved = "True"
                  /\ check_password(attempt.password, users[i].password))
    /\ [](~logged_in => (pc = "idle" /\ username = ""))
    /\ [][(~logged_in /\ logged_in') =>
              /\ Route = "login"
              /\ authenticate_user(username', attempt'.password).ok]_vars

C9_Witness ==
    /\ logged_in
    /\ username = "alice"
    /\ pc = "done"
    /\ Len(users) = 2
    /\ users[1].username = "admin"

\* C10: the store holds at most one record per username.
C10_OneRecordPerUsername ==
    \A i, j \in 1..Len(users) : i # j => users[i].username # users[j].username

====
